---- MODULE Spec2Model ----
(***************************************************************************)
(* A model of the tradingbot repository: the retry decorator               *)
(* (utils/retry_exception.py), the Fyers login sequence (fyersLogin.py),   *)
(* the exception logger (utils/logger.py), the date-range partitioner and  *)
(* the cached, pooled history fetch get_history (fyersModel.py).           *)
(***************************************************************************)
EXTENDS Integers, Sequences, FiniteSets, TLC

VARIABLES
    \* ---- retry(max_attempts, initial_delay, backoff_factor) ----
    func,               \* the decorated function: "op" (any operation) or "login"
    max_attempts,       \* closure variables of retry
    initial_delay,
    backoff_factor,
    pc,                 \* position of the decorator / of wrapped_function
    remaining_attempts, \* locals of wrapped_function
    current_delay,
    calls,              \* invocations of func made by the current call of wrapped_function
    wcalls,             \* calls of wrapped_function made so far
    sleeps,             \* the time.sleep durations of the current call, in order
    prints,             \* diagnostic print events of the current call
    last_error,         \* the error func raised at its most recent invocation
    raised,             \* the error that left retry / wrapped_function
    result,             \* the value wrapped_function returned
    \* ---- FyersLogin ----
    idx,                \* position of login's for loop in `steps` (0: not in login)
    data,               \* self.data
    access_token,       \* self.access_token
    log,                \* the step invocations of the current invocation of login
    notifications,      \* the texts handed to sendMessage by the current invocation
    external_calls,     \* per step, the external calls issued since __init__ began
    logged,             \* logger.error records written by log_exception
    constructed,        \* outcome of FyersLogin.__init__: "no", "returned", "raised"
    teleBot,            \* self.teleBot: None, or the state of the TelegramBot
    deliveries,         \* how each sendMessage of the current invocation ended
    \* ---- FyersModel.validate_date_range ----
    request,            \* the data argument
    windows,            \* the returned data_list (range_from/range_to pairs)
    vpc,                \* "idle", "input", "returned" or "TypeError"
    \* ---- FyersModel.get_history ----
    hform,              \* how the argument was passed: "positional" or "keyword"
    hpc,                \* position of the call of get_history
    fetch,              \* per sub-range, the future executor.map submitted for it
    collected,          \* the sub-ranges whose results list(...) has taken, in order
    responses,          \* the list `responses`
    converted,          \* the frames convert_to_OHLCV has produced, in order
    hresult,            \* the value get_history returned
    herror,             \* the error that left get_history
    cache,              \* the lru_cache of get_history, least recently used first
    hcalls,             \* calls of get_history made so far
    prev,               \* the call of get_history that finished last
    uses,               \* the keys of the hits and of the stores of the cache, in order
    faults,             \* failures the network may still produce
    flaky,              \* the sub-ranges whose network calls may fail
    \* ---- FyersModel.history_daily ----
    fetched,            \* the series get_history returned: rows of date and values
    daily,              \* the series history_daily returned
    again,              \* the daily rollup applied to `daily`
    dpc,                \* "idle", "called", "returned" or "rolled"
    \* ---- instances.get_instance ----
    today,              \* datetime.datetime.today().date(), a day number
    tele_file,          \* logdir/telegramBot.pickle
    fyers_file,         \* logdir/fyers.pickle
    ipc,                \* position of the call of get_instance
    icalls,             \* calls of get_instance made so far
    at_entry,           \* whether each file was current when the call began
    auth_runs,          \* FyersLogin constructions (logins) of the current call
    itoken,             \* access_token of the FyersLogin the call constructed
    iresult,            \* the second element get_instance returned
    ierror,             \* the error that left get_instance
    \* ---- get_history called from several threads ----
    threads             \* per thread, the invocation of get_history it is in

retry_vars == <<func, max_attempts, initial_delay, backoff_factor, pc,
                remaining_attempts, current_delay, calls, wcalls, sleeps,
                prints, last_error, raised, result>>
login_vars == <<idx, data, access_token, log, notifications, external_calls,
                logged, constructed, teleBot, deliveries>>
part_vars  == <<request, windows, vpc>>
hist_vars  == <<hform, hpc, fetch, collected, responses, converted, hresult,
                herror, cache, hcalls, prev, uses, faults, flaky>>
daily_vars == <<fetched, daily, again, dpc>>
inst_vars  == <<today, tele_file, fyers_file, ipc, icalls, at_entry, auth_runs,
                itoken, iresult, ierror>>
conc_vars  == <<threads>>
ext_vars   == <<daily_vars, inst_vars, conc_vars>>
vars == <<retry_vars, login_vars, part_vars, hist_vars, ext_vars>>

----------------------------------------------------------------------------
\* Bounds of the model.
MaxAttemptsArg == 3     \* max_attempts is drawn from -1..MaxAttemptsArg
MaxDelayArg == 2        \* initial_delay is drawn from -1..MaxDelayArg
MaxBackoffArg == 3      \* backoff_factor is drawn from 0..MaxBackoffArg
MaxWrapperCalls == 2    \* calls of one wrapped function
MaxInvocations == 6     \* cap on the invocations within one call of wrapped_function
MaxFrom == 1            \* range_from is drawn from 0..MaxFrom (day numbers)
MaxRangeDays == 1470    \* range_to - range_from is drawn from -1..MaxRangeDays
MaxWindows == 6         \* a request of get_history spans 0..MaxWindows sub-ranges
MaxFaults == 5          \* failures of the network during the calls of get_history
MaxCalls == 2           \* successive calls of get_history
MaxSeriesCalls == 103   \* calls of get_history made for a list of requests
MaxOld == 2             \* the earliest requests of the list may be asked for again
MaxDay == 4             \* the dates of history_daily are drawn from 0..MaxDay
MaxRows == 4            \* rows of the series handed to history_daily
MaxToday == 3           \* today runs from 1 to MaxToday
MaxInstanceCalls == 3   \* calls of get_instance
MaxThreads == 2         \* threads that call get_history on one client
MaxThreadWindows == 2   \* their requests span 1..MaxThreadWindows sub-ranges

----------------------------------------------------------------------------
\* Values.
None == <<"None">>
Absent == <<>>          \* a key a dict does not hold

\* An exception object: its type and where it was raised (its identity).
Error(type, attempt, step) == [type |-> type, attempt |-> attempt, step |-> step]
NoError == Error("none", 0, 0)
\* raise Exception(f"Failed to execute {func.__name__} after {max_attempts} attempts. ")
FailedToExecute == Error("Exception: Failed to execute", 0, 0)
ValueErrorOf(what) == Error("ValueError: " \o what, 0, 0)

\* The kinds of error the wrapped operation raises.
OpErrorTypes == {"ConnectionError", "ValueError"}

----------------------------------------------------------------------------
\* retry: the validation of the arguments (lines 20-28), in the code's order.
\* The result is the ValueError raised, or NoError.
BackoffFactorTooSmall_Strict(b) == b < 1
BackoffFactorTooSmall(b) == b <= 1

\* max_attempts = int(max_attempts): the argument is an int (docstring), which
\* int() returns unchanged.
retry_validate(ma, d, b) ==
    IF BackoffFactorTooSmall(b) THEN ValueErrorOf("backoff_factor must be greater than 1")
    ELSE IF ma < 0 THEN ValueErrorOf("max_attempts must be 0 or greater")
    ELSE IF d <= 0 THEN ValueErrorOf("initial_delay must be greater than 0")
    ELSE NoError

\* login's `for step_func, step_name in steps`: every invocation of login starts
\* at the first entry of steps.
FirstStep_Resume(i) == IF i = 0 THEN 1 ELSE i
FirstStep(i) == 1

\* while remaining_attempts > 0
LoopCondition(r) == r > 0

\* remaining_attempts -= 1
ConsumeAttempt_Forgotten(r) == r
ConsumeAttempt(r) == r - 1

\* def retry(max_attempts=3, initial_delay=3, backoff_factor=2): the parameters
\* a call of retry can be given by keyword.
Parameters == {"max_attempts", "initial_delay", "backoff_factor"}

\* The keywords of the call of retry at each place that decorates with it:
\* fyersModel.py:353 passes do_print=False as well.
Keywords(f) ==
    IF f = "history" THEN Parameters \cup {"do_print"} ELSE Parameters

\* Python binds the arguments before the body runs: a keyword that is no
\* parameter raises TypeError.
TypeErrorOf(what) == Error("TypeError: " \o what, 0, 0)
bind_arguments(keywords) ==
    IF keywords \subseteq Parameters
    THEN NoError
    ELSE TypeErrorOf("retry() got an unexpected keyword argument")

\* retry(...) itself: binds its arguments, validates and returns the decorator,
\* or raises.
retry ==
    /\ pc = "decorating"
    /\ LET bound == bind_arguments(Keywords(func))
           err == IF bound # NoError THEN bound
                  ELSE retry_validate(max_attempts, initial_delay, backoff_factor) IN
        IF err # NoError
        THEN /\ pc' = "config_error"
             /\ raised' = err
        ELSE /\ pc' = "ready"
             /\ UNCHANGED raised
    /\ UNCHANGED <<func, max_attempts, initial_delay, backoff_factor,
                   remaining_attempts, current_delay, calls, wcalls, sleeps,
                   prints, last_error, result>>
    /\ UNCHANGED <<login_vars, part_vars, hist_vars, ext_vars>>

\* wrapped_function, line 33: a call starts with fresh locals.
wrapped_function_enter ==
    /\ pc \in {"ready", "returned", "raised"}
    /\ wcalls < MaxWrapperCalls
    /\ func = "login" => constructed = "no" /\ wcalls = 0
    /\ wcalls' = wcalls + 1
    /\ remaining_attempts' = max_attempts
    /\ current_delay' = initial_delay
    /\ calls' = 0
    /\ sleeps' = <<>>
    /\ prints' = 0
    /\ last_error' = NoError
    /\ raised' = NoError
    /\ result' = None
    /\ pc' = "loop"
    /\ UNCHANGED <<func, max_attempts, initial_delay, backoff_factor>>
    /\ UNCHANGED <<login_vars, part_vars, hist_vars, ext_vars>>

\* line 35-37: the loop test holds and func is invoked.
invoke_func ==
    /\ pc = "loop"
    /\ LoopCondition(remaining_attempts)
    /\ calls < MaxInvocations
    /\ calls' = calls + 1
    /\ pc' = "in_func"
    /\ idx' = IF func = "login" THEN FirstStep(idx) ELSE idx
    /\ log' = <<>>
    /\ notifications' = <<>>
    /\ deliveries' = <<>>
    /\ UNCHANGED <<func, max_attempts, initial_delay, backoff_factor,
                   remaining_attempts, current_delay, wcalls, sleeps, prints,
                   last_error, raised, result>>
    /\ UNCHANGED <<data, access_token, external_calls, logged, constructed, teleBot>>
    /\ UNCHANGED <<part_vars, hist_vars, ext_vars>>

\* line 48: the loop test fails on entry (only when max_attempts = 0).
raise_failed_to_execute ==
    /\ pc = "loop"
    /\ ~LoopCondition(remaining_attempts)
    /\ raised' = FailedToExecute
    /\ pc' = "raised"
    /\ UNCHANGED <<func, max_attempts, initial_delay, backoff_factor,
                   remaining_attempts, current_delay, calls, wcalls, sleeps,
                   prints, last_error, result>>
    /\ UNCHANGED <<login_vars, part_vars, hist_vars, ext_vars>>

\* line 38: func returned; wrapped_function returns its result.
return_result_Continue(v) ==
    /\ result' = v
    /\ pc' = "loop"
    /\ UNCHANGED <<func, max_attempts, initial_delay, backoff_factor,
                   remaining_attempts, current_delay, calls, wcalls, sleeps,
                   prints, last_error, raised>>
return_result(v) ==
    /\ result' = v
    /\ pc' = "returned"
    /\ UNCHANGED <<func, max_attempts, initial_delay, backoff_factor,
                   remaining_attempts, current_delay, calls, wcalls, sleeps,
                   prints, last_error, raised>>

\* line 42: current_delay *= backoff_factor.
NextDelay_Additive(delay, factor) == delay + factor
NextDelay(delay, factor) == delay * factor

\* lines 39-46: func raised `error`.
except_handler(error) ==
    LET left == ConsumeAttempt(remaining_attempts) IN
    /\ last_error' = error
    /\ remaining_attempts' = left
    /\ sleeps' = Append(sleeps, current_delay)
    /\ current_delay' = NextDelay(current_delay, backoff_factor)
    /\ prints' = prints + 1
    /\ IF left <= 0
       THEN /\ raised' = error
            /\ pc' = "raised"
       ELSE /\ pc' = "loop"
            /\ UNCHANGED raised
    /\ UNCHANGED <<func, max_attempts, initial_delay, backoff_factor, calls,
                   wcalls, result>>

\* The wrapped operation, when it is not login: it returns or raises.
op_returns ==
    /\ func # "login"
    /\ pc = "in_func"
    /\ return_result(<<"result", calls>>)
    /\ UNCHANGED <<login_vars, part_vars, hist_vars, ext_vars>>

op_raises ==
    /\ func # "login"
    /\ pc = "in_func"
    /\ \E t \in OpErrorTypes : except_handler(Error(t, calls, 0))
    /\ UNCHANGED <<login_vars, part_vars, hist_vars, ext_vars>>

----------------------------------------------------------------------------
\* FyersLogin (fyersLogin.py).

\* A parsed response / self.data: a dict with the keys the login reads, a text
\* body (RestClient.request returns response.text when the body is not JSON), or
\* None.
Dict(rk, emb, url, at, msg) ==
    [kind |-> "dict", request_key |-> rk, embedded |-> emb, Url |-> url,
     access_token |-> at, message |-> msg]
EmptyDict == Dict(Absent, Absent, Absent, Absent, Absent)      \* self.data = {}
Text == [kind |-> "text", request_key |-> Absent, embedded |-> Absent,
         Url |-> Absent, access_token |-> Absent, message |-> Absent]
NoneData == [kind |-> "None", request_key |-> Absent, embedded |-> Absent,
             Url |-> Absent, access_token |-> Absent, message |-> Absent]

\* d.get(key): None when the key is absent.
Get(d, key) == IF d[key] = Absent THEN None ELSE d[key]

\* What the servers may answer at attempt a. Each step's answer carries or lacks
\* the field the next step reads, carries or lacks a message, or is not JSON.
Messages == {Absent, <<"msg">>}
OTPResponses(a) ==
    {Dict(rk, Absent, Absent, Absent, m) : rk \in {<<"rk", a, 1>>, Absent}, m \in Messages}
        \cup {Text}
TOTPResponses(a) ==
    {Dict(rk, Absent, Absent, Absent, m) : rk \in {<<"rk", a, 2>>, Absent}, m \in Messages}
        \cup {Text}
PINResponses(a) ==
    {Dict(Absent, emb, Absent, Absent, m) : emb \in {<<"bearer", a>>, Absent}, m \in Messages}
        \cup {Text}
AuthCodeResponses(a) ==
    {Dict(Absent, Absent, url, Absent, m) :
        url \in {<<"url", a>>, <<"url_without_auth_code">>, Absent}, m \in Messages}
        \cup {Text}
\* appSession.generate_token() of the broker SDK answers with a dict.
TokenResponses(a) ==
    {Dict(Absent, Absent, Absent, at, m) : at \in {<<"token", a>>, Absent}, m \in Messages}

\* parse_qs(urlparse(url).query): the auth_code parameter of the redirect URL.
HasAuthCode(url) == Len(url) = 2 /\ url[1] = "url"
AuthCodeOf(url) == <<"auth_code", url[2]>>

\* login, lines 186-192: the steps in the order the for loop runs them.
steps_PINBeforeTOTP ==
    <<"_send_loginOTP", "_verifyPIN", "_verifyTOTP", "_generateAuthCode",
      "_generate_access_token">>
steps ==
    <<"_send_loginOTP", "_verifyTOTP", "_verifyPIN", "_generateAuthCode",
      "_generate_access_token">>

step_name(f) ==
    CASE f = "_send_loginOTP" -> "Send login OTP"
      [] f = "_verifyTOTP" -> "Verify TOTP"
      [] f = "_verifyPIN" -> "Verify PIN"
      [] f = "_generateAuthCode" -> "Generate Auth Code"
      [] f = "_generate_access_token" -> "Generate Access Token"

\* The number of the protocol step a step function performs.
StepNo(f) ==
    CASE f = "_send_loginOTP" -> 1
      [] f = "_verifyTOTP" -> 2
      [] f = "_verifyPIN" -> 3
      [] f = "_generateAuthCode" -> 4
      [] f = "_generate_access_token" -> 5

InLogin(f) ==
    /\ func = "login"
    /\ pc = "in_func"
    /\ idx \in 1..Len(steps)
    /\ steps[idx] = f

\* One invocation of a step function, as the log keeps it: the attempt, the step,
\* whether the external call was issued, how the step function ended, whether the
\* field the step reads from self.data was missing, and the value it sent.
Entry(f, external, outcome, missing, sent) ==
    [attempt |-> calls, step |-> StepNo(f), external |-> external,
     outcome |-> outcome, missing |-> missing, sent |-> sent]

\* A notification: FyersLogin.sendMessage (teleBot.sendMessage or print).
StepMessage(f) == <<step_name(f) \o " successful: ", "msg">>
LoginSuccessful == <<"Login successful!">>

\* FyersLogin.sendMessage (fyersLogin.py 63-67) hands the text to
\* teleBot.sendMessage, or prints it when there is no bot. TelegramBot.sendMessage
\* (telegram.py 71-88) raises inside its try block when the credentials are
\* missing (ValueError of _validate_credentials) or when the bot has no log_path
\* (make_request, line 65); a failing HTTP request is logged by the
\* log_exception wrapper of make_request, which returns None. The except clause
\* of sendMessage logs the error and returns None.
TeleBots == {"None", "no credentials", "no log_path", "request fails", "delivers"}
Delivery(outcome, logs, raises) == [outcome |-> outcome, logs |-> logs, raises |-> raises]
DeliveryErrors ==
    {"ValueError: Telegram credentials not found", "AttributeError: log_path",
     "RequestException: sendMessage"}
sendMessage_Propagating(bot) ==
    CASE bot = "None" -> Delivery("printed", FALSE, FALSE)
      [] bot = "delivers" -> Delivery("sent", FALSE, FALSE)
      [] bot = "no credentials" ->
            Delivery("ValueError: Telegram credentials not found", FALSE, TRUE)
      [] bot = "no log_path" -> Delivery("AttributeError: log_path", FALSE, TRUE)
      [] bot = "request fails" -> Delivery("RequestException: sendMessage", FALSE, TRUE)
sendMessage(bot) ==
    CASE bot = "None" -> Delivery("printed", FALSE, FALSE)
      [] bot = "delivers" -> Delivery("sent", FALSE, FALSE)
      [] bot = "no credentials" ->
            Delivery("ValueError: Telegram credentials not found", TRUE, FALSE)
      [] bot = "no log_path" -> Delivery("AttributeError: log_path", TRUE, FALSE)
      [] bot = "request fails" -> Delivery("RequestException: sendMessage", TRUE, FALSE)

\* self.access_token = response.get("access_token")
TokenFrom_Bearer(response) == Get(response, "embedded")
TokenFrom(response) == Get(response, "access_token")

Count(counts, entry) ==
    IF entry.external
    THEN [counts EXCEPT ![entry.step] = counts[entry.step] + 1]
    ELSE counts

\* The step function raised `error`: login is left, the retry wrapper handles it.
step_raises(f, entry, error) ==
    /\ log' = Append(log, entry)
    /\ external_calls' = Count(external_calls, entry)
    /\ except_handler(error)
    /\ UNCHANGED <<idx, data, access_token, notifications, logged, constructed,
                   teleBot, deliveries>>

\* _handle_step, lines 177-179, after the step function returned `response`;
\* then the for loop goes on, and after the last step login sends
\* "Login successful!" and returns True (lines 197-198).
step_returns(f, entry, response, token) ==
    /\ log' = Append(log, entry)
    /\ external_calls' = Count(external_calls, entry)
    /\ data' = response
    /\ access_token' = token
    /\ IF response.kind # "dict"
       THEN \* self.data.get: 'str' / 'NoneType' object has no attribute 'get'
            /\ except_handler(Error("AttributeError: " \o response.kind, calls, StepNo(f)))
            /\ UNCHANGED <<idx, notifications, deliveries>>
       ELSE LET has_message == Get(response, "message") # None
                delivery == sendMessage(teleBot)
                sent == IF has_message
                        THEN Append(notifications, StepMessage(f))
                        ELSE notifications
                ended == IF has_message THEN Append(deliveries, delivery) ELSE deliveries
            IN  IF has_message /\ delivery.raises
                THEN /\ notifications' = sent
                     /\ deliveries' = ended
                     /\ except_handler(Error(delivery.outcome, calls, StepNo(f)))
                     /\ UNCHANGED idx
                ELSE IF idx < Len(steps)
                THEN /\ idx' = idx + 1
                     /\ notifications' = sent
                     /\ deliveries' = ended
                     /\ UNCHANGED retry_vars
                ELSE /\ notifications' = Append(sent, LoginSuccessful)
                     /\ deliveries' = Append(ended, delivery)
                     /\ IF delivery.raises
                        THEN except_handler(Error(delivery.outcome, calls, StepNo(f)))
                        ELSE return_result(<<"True">>)
                     /\ UNCHANGED idx
    /\ UNCHANGED <<logged, constructed, teleBot>>

\* self.access_token after one of the HTTP steps (lines 69-147) returned: none
\* of them assigns it. (The body of Verify PIN carries a token of its own, which
\* step 4 sends as its bearer.)
StepToken_FromPIN(f, response, current) ==
    IF f = "_verifyPIN" /\ response.kind = "dict"
    THEN Get(response, "embedded")
    ELSE current
StepToken(f, response, current) == current

\* An HTTP step through client.request: the request is sent; it raises
\* (requests.exceptions.RequestException) or its parsed body is returned.
http_step(f, missing, sent, answers) ==
    \/ step_raises(f, Entry(f, TRUE, "raised", missing, sent),
                   Error("RequestException", calls, StepNo(f)))
    \/ \E r \in answers :
          step_returns(f, Entry(f, TRUE, "returned", missing, sent), r,
                       StepToken(f, r, access_token))

_send_loginOTP ==
    /\ InLogin("_send_loginOTP")
    /\ http_step("_send_loginOTP", FALSE, None, OTPResponses(calls))
    /\ UNCHANGED <<part_vars, hist_vars, ext_vars>>

\* "request_key": self.data.get("request_key")
_verifyTOTP ==
    /\ InLogin("_verifyTOTP")
    /\ LET rk == Get(data, "request_key") IN
        http_step("_verifyTOTP", rk = None, rk, TOTPResponses(calls))
    /\ UNCHANGED <<part_vars, hist_vars, ext_vars>>

_verifyPIN ==
    /\ InLogin("_verifyPIN")
    /\ LET rk == Get(data, "request_key") IN
        http_step("_verifyPIN", rk = None, rk, PINResponses(calls))
    /\ UNCHANGED <<part_vars, hist_vars, ext_vars>>

\* "authorization": f"Bearer {self.data['data']['access_token']}": KeyError when
\* the key is missing, before any request is sent.
_generateAuthCode ==
    /\ InLogin("_generateAuthCode")
    /\ IF data.embedded = Absent
       THEN step_raises("_generateAuthCode",
                        Entry("_generateAuthCode", FALSE, "raised", TRUE, None),
                        Error("KeyError", calls, 4))
       ELSE http_step("_generateAuthCode", FALSE, data.embedded, AuthCodeResponses(calls))
    /\ UNCHANGED <<part_vars, hist_vars, ext_vars>>

\* lines 149-174.
_generate_access_token ==
    /\ InLogin("_generate_access_token")
    /\ LET f == "_generate_access_token"
           url == Get(data, "Url")
       IN  IF url = None
           THEN \* `if url:` fails: response stays None and is returned
                step_returns(f, Entry(f, FALSE, "returned", TRUE, None), NoneData,
                             access_token)
           ELSE IF ~HasAuthCode(url)
           THEN \* parse_qs(parsed.query)["auth_code"]: KeyError
                step_raises(f, Entry(f, FALSE, "raised", TRUE, None),
                            Error("KeyError", calls, 5))
           ELSE \* appSession.generate_token(): the SDK's token exchange
                \/ step_raises(f, Entry(f, TRUE, "raised", FALSE, AuthCodeOf(url)),
                               Error("SDKError", calls, 5))
                \/ \E r \in TokenResponses(calls) :
                      step_returns(f, Entry(f, TRUE, "returned", FALSE, AuthCodeOf(url)),
                                   r, TokenFrom(r))
    /\ UNCHANGED <<part_vars, hist_vars, ext_vars>>

\* ExceptionLogger.__init__(self, level="DEBUG", log_path=log_path): the default
\* reraise_on_exception=False stays.
reraise_on_exception == FALSE

\* FyersLogin.__init__, line 61: self.log_exception(self.login)() has ended.
\* log_exception's wrapper (logger.py 97-107) logs an exception and returns None
\* unless reraise_on_exception; then __init__ ends.
log_exception ==
    /\ func = "login"
    /\ constructed = "no"
    /\ pc \in {"returned", "raised"}
    /\ IF pc = "raised"
       THEN /\ logged' = logged + 1
            /\ constructed' = IF reraise_on_exception THEN "raised" ELSE "returned"
       ELSE /\ constructed' = "returned"
            /\ UNCHANGED logged
    /\ UNCHANGED <<idx, data, access_token, log, notifications, external_calls,
                   teleBot, deliveries>>
    /\ UNCHANGED <<retry_vars, part_vars, hist_vars, ext_vars>>

----------------------------------------------------------------------------
\* FyersModel.validate_date_range (fyersModel.py 421-442). Dates are day numbers.

\* The resolutions of a request. KnownResolutions: values the API documents
\* (the docstring of history, lines 359-360); "7": a value it does not document;
\* NoResolution: the request has no "resolution" key.
NoResolution == "<no key>"
KnownResolutions == {"D", "1D", "5", "60"}
UnknownResolutions == {"7", NoResolution}
Resolutions == KnownResolutions \cup UnknownResolutions

\* {"D": 365}.get(data.get("resolution", 100)): the 100 is the default of the
\* inner get, so the outer lookup yields 365 for "D" and None for anything else.
DailyAllowedDayDifference == 365
allowed_day_difference_Default(resolution) ==
    IF resolution = "D"
    THEN [is_none |-> FALSE, days |-> DailyAllowedDayDifference]
    ELSE [is_none |-> FALSE, days |-> 100]
allowed_day_difference(resolution) ==
    LET key == IF resolution = NoResolution THEN "100" ELSE resolution IN
    IF key = "D"
    THEN [is_none |-> FALSE, days |-> DailyAllowedDayDifference]
    ELSE [is_none |-> TRUE, days |-> 0]

\* temp_dict["range_to"]: the day before the next window, or range_to.
WindowEnd_Overlap(next_date, range_to) ==
    IF next_date <= range_to THEN next_date ELSE range_to
WindowEnd(next_date, range_to) ==
    IF next_date <= range_to THEN next_date - 1 ELSE range_to

\* while current_date <= data.get("range_to")
LoopContinues_Strict(current_date, range_to) == current_date < range_to
LoopContinues(current_date, range_to) == current_date <= range_to

\* The while loop of lines 434-442.
RECURSIVE data_list_from(_, _, _)
data_list_from(current_date, range_to, allowed) ==
    IF LoopContinues(current_date, range_to)
    THEN LET next_date == current_date + allowed IN
         <<[range_from |-> current_date, range_to |-> WindowEnd(next_date, range_to)]>>
            \o data_list_from(next_date, range_to, allowed)
    ELSE <<>>

\* day_difference // allowed_day_difference raises TypeError when the latter is None.
validate_date_range ==
    /\ vpc = "input"
    /\ LET allowed == allowed_day_difference(request.resolution) IN
        IF allowed.is_none
        THEN /\ vpc' = "TypeError"
             /\ UNCHANGED windows
        ELSE /\ vpc' = "returned"
             /\ windows' = data_list_from(request.range_from, request.range_to,
                                          allowed.days)
    /\ UNCHANGED request
    /\ UNCHANGED <<retry_vars, login_vars, hist_vars, ext_vars>>

----------------------------------------------------------------------------
\* FyersModel.get_history (fyersModel.py 462-477) with the sub-range fetches of
\* FyersModel.history (353-382), which is client.request under
\* retry(max_attempts=5, initial_delay=2, backoff_factor=2).

max_workers == 5            \* concurrent.futures.ThreadPoolExecutor(5)
HistoryMaxAttempts == 5     \* @utils.retry(max_attempts=5, ...)
maxsize == 100              \* functools.lru_cache(maxsize=100)

\* What the server answers to one sub-request: the candles of the sub-request's
\* range, or a JSON body without a "candles" key.
NoResponse == [kind |-> "none", range_from |-> 0, range_to |-> 0]
Candles(w) == [kind |-> "candles", range_from |-> w.range_from, range_to |-> w.range_to]
ErrorBody(w) == [kind |-> "error body", range_from |-> w.range_from, range_to |-> w.range_to]

\* A future of executor.map: its status, and for the call of history it runs
\* the attempts left, the network calls issued, the response and the error.
Future(status, remaining, net, response, error) ==
    [status |-> status, remaining |-> remaining, net |-> net,
     response |-> response, error |-> error]
Queued == Future("queued", 0, 0, NoResponse, NoError)

Running(f) == {i \in DOMAIN f : f[i].status = "running"}
Done(f) == {i \in DOMAIN f : f[i].status \in {"returned", "raised", "cancelled"}}
RECURSIVE NetCallsUpTo(_, _)
NetCallsUpTo(f, n) == IF n = 0 THEN 0 ELSE f[n].net + NetCallsUpTo(f, n - 1)
NetCalls(f) == NetCallsUpTo(f, Len(f))

\* A thread of the pool takes the next work item: the pool starts a thread per
\* submitted item until it has max_workers threads.
WorkerAvailable_ThreadPerItem(f) == TRUE
WorkerAvailable(f) == Cardinality(Running(f)) < max_workers

\* The work queue is first in, first out.
NextQueued(f) ==
    IF \E i \in DOMAIN f : f[i].status = "queued"
    THEN CHOOSE i \in DOMAIN f :
            /\ f[i].status = "queued"
            /\ \A j \in DOMAIN f : f[j].status = "queued" => i <= j
    ELSE 0

\* The futures whose result list(executor.map(...)) may take next: map yields
\* the results in the order of submission, waiting for each future in turn.
Collectable_AsCompleted(f, taken) ==
    {i \in DOMAIN f : f[i].status \in {"returned", "raised"}
                        /\ \A k \in DOMAIN taken : taken[k] # i}
Collectable(f, taken) ==
    {i \in DOMAIN f : i = Len(taken) + 1 /\ f[i].status \in {"returned", "raised"}}

\* What taking a future's result does: result() returns the value or raises
\* the exception of the call.
ResultOf_SkipFailed(status) == IF status = "raised" THEN "skip" ELSE "append"
ResultOf(status) == IF status = "raised" THEN "raise" ELSE "append"

\* The list comprehension of lines 471-476 starts once the with block is left.
CanConvert_Streaming(p, f, taken) == p \in {"collecting", "converting"}
CanConvert(p, f, taken) == p = "converting"

\* convert_to_OHLCV(data, response): the frame of response["candles"], with the
\* symbol of data.
Frame(w, response) ==
    [window |-> w, candles |-> <<response.range_from, response.range_to>>]

\* The key lru_cache makes of a call: positional and keyword arguments give
\* different keys (functools._make_key); freezeargs makes the dict hashable.
CacheKey(form, req) == <<form, req>>
\* historical_data = self.get_history(data=data): history_daily passes its
\* request by keyword.
history_daily_form == "keyword"
CacheIndex(c, key) ==
    IF \E k \in DOMAIN c : c[k].key = key
    THEN CHOOSE k \in DOMAIN c : c[k].key = key
    ELSE 0
Remove(c, k) == SubSeq(c, 1, k - 1) \o SubSeq(c, k + 1, Len(c))
\* A hit makes the entry the most recently used one.
Touch_Fifo(c, k) == c
Touch(c, k) == Append(Remove(c, k), c[k])
\* A miss stores the result; a full cache drops its least recently used entry.
Store(c, key, value) ==
    Append(IF Len(c) >= maxsize THEN Tail(c) ELSE c, [key |-> key, value |-> value])

\* The wrapper of lru_cache stores after the body has returned: an exception
\* of the body passes through it and leaves the cache as it was.
CacheAfterRaise_StorePartial(c, key, partial) == Store(c, key, partial)
CacheAfterRaise(c, key, partial) == c

NoCall == [form |-> "none", request |-> [resolution |-> NoResolution,
           range_from |-> 0, range_to |-> 0], outcome |-> "none", series |-> <<>>]

Min(a, b) == IF a <= b THEN a ELSE b

\* A call get_history(req) or get_history(data=req): the wrapper of lru_cache
\* looks the key up; a hit returns the stored value, a miss runs the body.
call_get_history(req, form) ==
    LET k == CacheIndex(cache, CacheKey(form, req)) IN
    /\ hpc \in {"idle", "returned", "raised"}
    /\ request' = req
    /\ hform' = form
    /\ hcalls' = hcalls + 1
    /\ prev' = IF hpc = "idle" THEN prev
               ELSE [form |-> hform, request |-> request, outcome |-> hpc,
                     series |-> hresult]
    /\ windows' = <<>>
    /\ fetch' = <<>>
    /\ collected' = <<>>
    /\ responses' = <<>>
    /\ converted' = <<>>
    /\ herror' = NoError
    /\ IF k # 0
       THEN /\ hpc' = "returned"
            /\ hresult' = cache[k].value
            /\ cache' = Touch(cache, k)
            /\ uses' = Append(uses, CacheKey(form, req))
            /\ vpc' = "idle"
       ELSE /\ hpc' = "body"
            /\ hresult' = <<>>
            /\ cache' = cache
            /\ uses' = uses
            /\ vpc' = "input"
    /\ UNCHANGED <<faults, flaky>>
    /\ UNCHANGED <<retry_vars, login_vars, ext_vars>>

\* The TypeError of validate_date_range leaves get_history (line 465).
propagate_TypeError ==
    /\ hpc = "body"
    /\ vpc = "TypeError"
    /\ hpc' = "raised"
    /\ herror' = Error("TypeError", 0, 0)
    /\ UNCHANGED <<hform, fetch, collected, responses, converted, hresult, cache,
                   hcalls, prev, uses, faults, flaky>>
    /\ UNCHANGED <<retry_vars, login_vars, part_vars, ext_vars>>

\* executor.map(self.history, data_list) submits one work item per sub-range
\* (lines 468-469); with no sub-range, the with block is left at once.
executor_map ==
    /\ hpc = "body"
    /\ vpc = "returned"
    /\ fetch' = [i \in 1..Len(windows) |-> Queued]
    /\ hpc' = IF Len(windows) = 0 THEN "exiting" ELSE "collecting"
    /\ UNCHANGED <<hform, collected, responses, converted, hresult, herror, cache,
                   hcalls, prev, uses, faults, flaky>>
    /\ UNCHANGED <<retry_vars, login_vars, part_vars, ext_vars>>

\* A worker thread takes the oldest queued item and enters wrapped_function of
\* history: remaining_attempts = int(max_attempts).
fetch_start ==
    /\ hpc \in {"collecting", "exiting"}
    /\ NextQueued(fetch) # 0
    /\ WorkerAvailable(fetch)
    /\ fetch' = [fetch EXCEPT ![NextQueued(fetch)] =
                    Future("running", HistoryMaxAttempts, 0, NoResponse, NoError)]
    /\ UNCHANGED <<hform, hpc, collected, responses, converted, hresult, herror,
                   cache, hcalls, prev, uses, faults, flaky>>
    /\ UNCHANGED <<retry_vars, login_vars, part_vars, ext_vars>>

\* One network call of a running fetch returns a parsed body: the candles, or a
\* body without them.
fetch_returns ==
    /\ hpc \in {"collecting", "exiting"}
    /\ \E i \in Running(fetch) :
        \/ /\ fetch' = [fetch EXCEPT ![i] =
                  Future("returned", @.remaining, @.net + 1, Candles(windows[i]), NoError)]
           /\ UNCHANGED faults
        \/ /\ faults > 0
           /\ i \in flaky
           /\ faults' = faults - 1
           /\ fetch' = [fetch EXCEPT ![i] =
                  Future("returned", @.remaining, @.net + 1, ErrorBody(windows[i]), NoError)]
    /\ UNCHANGED <<hform, hpc, collected, responses, converted, hresult, herror,
                   cache, hcalls, prev, uses, flaky>>
    /\ UNCHANGED <<retry_vars, login_vars, part_vars, ext_vars>>

\* One network call of a running fetch raises: the except clause of retry
\* consumes an attempt, and the error leaves history when none is left.
fetch_raises ==
    /\ hpc \in {"collecting", "exiting"}
    /\ faults > 0
    /\ faults' = faults - 1
    /\ \E i \in Running(fetch) \cap flaky :
        LET left == ConsumeAttempt(fetch[i].remaining)
            error == Error("RequestException", fetch[i].net + 1, i) IN
        fetch' = [fetch EXCEPT ![i] =
                    Future(IF LoopCondition(left) THEN "running" ELSE "raised",
                           left, @.net + 1, NoResponse, error)]
    /\ UNCHANGED <<hform, hpc, collected, responses, converted, hresult, herror,
                   cache, hcalls, prev, uses, flaky>>
    /\ UNCHANGED <<retry_vars, login_vars, part_vars, ext_vars>>

\* list(...) takes the next result of executor.map: a value is appended to
\* responses; an exception leaves the with block, and the pending futures are
\* cancelled.
collect_result ==
    /\ hpc = "collecting"
    /\ \E i \in Collectable(fetch, collected) :
        LET outcome == ResultOf(fetch[i].status)
            taken == Append(collected, i) IN
        IF outcome = "raise"
        THEN /\ herror' = fetch[i].error
             /\ fetch' = [j \in DOMAIN fetch |->
                            IF fetch[j].status = "queued"
                            THEN Future("cancelled", 0, 0, NoResponse, NoError)
                            ELSE fetch[j]]
             /\ hpc' = "exiting"
             /\ UNCHANGED <<collected, responses>>
        ELSE /\ collected' = taken
             /\ responses' = IF outcome = "append"
                             THEN Append(responses, fetch[i].response)
                             ELSE responses
             /\ hpc' = IF Len(taken) = Len(fetch) THEN "exiting" ELSE "collecting"
             /\ UNCHANGED <<herror, fetch>>
    /\ UNCHANGED <<hform, converted, hresult, cache, hcalls, prev, uses, faults, flaky>>
    /\ UNCHANGED <<retry_vars, login_vars, part_vars, ext_vars>>

\* The with block is left: executor.shutdown(wait=True) returns when no item is
\* running; then the exception propagates or the comprehension starts.
executor_exit ==
    /\ hpc = "exiting"
    /\ Running(fetch) = {}
    /\ NextQueued(fetch) = 0
    /\ hpc' = IF herror # NoError THEN "raised" ELSE "converting"
    /\ UNCHANGED <<hform, fetch, collected, responses, converted, hresult, herror,
                   cache, hcalls, prev, uses, faults, flaky>>
    /\ UNCHANGED <<retry_vars, login_vars, part_vars, ext_vars>>

\* One element of the list comprehension over zip(data_list, responses):
\* response["candles"] raises KeyError when the body has no candles.
convert_to_OHLCV ==
    /\ CanConvert(hpc, fetch, collected)
    /\ Len(converted) < Min(Len(windows), Len(responses))
    /\ LET k == Len(converted) + 1 IN
        IF responses[k].kind = "candles"
        THEN /\ converted' = Append(converted, Frame(windows[k], responses[k]))
             /\ UNCHANGED <<hpc, herror>>
        ELSE /\ hpc' = "raised"
             /\ herror' = Error("KeyError", 0, k)
             /\ UNCHANGED converted
    /\ cache' = IF hpc' = "raised"
                THEN CacheAfterRaise(cache, CacheKey(hform, request), converted)
                ELSE cache
    /\ UNCHANGED <<hform, fetch, collected, responses, hresult, hcalls, prev, uses,
                   faults, flaky>>
    /\ UNCHANGED <<retry_vars, login_vars, part_vars, ext_vars>>

\* pd.concat of the frames (ValueError on an empty list) and the return through
\* the wrapper of lru_cache, which stores the result.
concat ==
    /\ hpc = "converting"
    /\ Len(converted) = Min(Len(windows), Len(responses))
    /\ IF Len(converted) = 0
       THEN /\ hpc' = "raised"
            /\ herror' = Error("ValueError: No objects to concatenate", 0, 0)
            /\ UNCHANGED <<hresult, cache, uses>>
       ELSE /\ hpc' = "returned"
            /\ hresult' = converted
            /\ cache' = Store(cache, CacheKey(hform, request), converted)
            /\ uses' = Append(uses, CacheKey(hform, request))
            /\ UNCHANGED herror
    /\ UNCHANGED <<hform, fetch, collected, responses, converted, hcalls, prev, faults,
                   flaky>>
    /\ UNCHANGED <<retry_vars, login_vars, part_vars, ext_vars>>

----------------------------------------------------------------------------
\* FyersModel.history_daily (fyersModel.py 479-517). A row is the date of a
\* candle (the "date" column of convert_to_OHLCV, a day number) and val, which
\* stands for its open, high, low, close, volume and symbol; NaN: no value.
NaN == 0
Row(date, val) == [date |-> date, val |-> val]

\* historical_data.index.duplicated(keep="first"): the row at i repeats the
\* date of an earlier row.
duplicated_keep_last(rows, i) ==
    \E j \in (i + 1)..Len(rows) : rows[j].date = rows[i].date
duplicated(rows, i) ==
    \E j \in 1..(i - 1) : rows[j].date = rows[i].date

\* historical_data[~historical_data.index.duplicated(keep="first")]
RECURSIVE drop_duplicated(_, _)
drop_duplicated(rows, i) ==
    IF i > Len(rows) THEN <<>>
    ELSE (IF duplicated(rows, i) THEN <<>> ELSE <<rows[i]>>)
            \o drop_duplicated(rows, i + 1)

\* pd.date_range(start=range_from, end=range_to, freq="D")
date_range(start, end) == start..end

\* reindex(date_range): for every day of the range the value of the row of
\* that date, NaN when there is none; rows of other dates are dropped.
reindex_Shifted(rows, days) ==
    [d \in days |->
        IF \E i \in DOMAIN rows : rows[i].date = d - 1
        THEN rows[CHOOSE i \in DOMAIN rows : rows[i].date = d - 1].val
        ELSE NaN]
reindex(rows, days) ==
    [d \in days |->
        IF \E i \in DOMAIN rows : rows[i].date = d
        THEN rows[CHOOSE i \in DOMAIN rows : rows[i].date = d].val
        ELSE NaN]

\* ffill(): a NaN takes the last value that is not NaN before it, if any.
ffill(col) ==
    [d \in DOMAIN col |->
        IF col[d] # NaN THEN col[d]
        ELSE LET prior == {e \in DOMAIN col : e < d /\ col[e] # NaN} IN
             IF prior = {} THEN NaN
             ELSE col[CHOOSE e \in prior : \A x \in prior : x <= e]]

\* dropna() and reset_index(): the rows that hold a value, in index order.
RECURSIVE dropna_KeepAll(_, _, _)
dropna_KeepAll(col, d, end) ==
    IF d > end THEN <<>>
    ELSE <<Row(d, col[d])>> \o dropna_KeepAll(col, d + 1, end)
RECURSIVE dropna(_, _, _)
dropna(col, d, end) ==
    IF d > end THEN <<>>
    ELSE (IF col[d] = NaN THEN <<>> ELSE <<Row(d, col[d])>>)
            \o dropna(col, d + 1, end)

\* Lines 495-517: the rollup of a series onto the days of [start, end].
daily_rollup(rows, start, end) ==
    dropna(ffill(reindex(drop_duplicated(rows, 1), date_range(start, end))),
           start, end)

\* history_daily(data), once get_history(data=data) has returned.
history_daily ==
    /\ dpc = "called"
    /\ daily' = daily_rollup(fetched, request.range_from, request.range_to)
    /\ dpc' = "returned"
    /\ UNCHANGED <<fetched, again>>
    /\ UNCHANGED <<retry_vars, login_vars, part_vars, hist_vars, inst_vars, conc_vars>>

\* The rollup of lines 495-517 applied to the series history_daily returned.
rollup_again ==
    /\ dpc = "returned"
    /\ again' = daily_rollup(daily, request.range_from, request.range_to)
    /\ dpc' = "rolled"
    /\ UNCHANGED <<fetched, daily>>
    /\ UNCHANGED <<retry_vars, login_vars, part_vars, hist_vars, inst_vars, conc_vars>>

----------------------------------------------------------------------------
\* instances.py: is_current and get_instance. A file is absent, or has the day
\* of its last modification and the object dill.dump wrote into it.
File(exists, mdate, kind, token) ==
    [exists |-> exists, mdate |-> mdate, kind |-> kind, token |-> token]
NoFile == File(FALSE, 0, "none", None)
NoToken == None
Token == <<"token">>

\* is_current (lines 8-22)
is_current(fname) == fname.exists /\ fname.mdate = today

NoInstance == [kind |-> "none", token |-> None]
Instance(kind, token) == [kind |-> kind, token |-> token]

\* A call of get_instance(logdir).
call_get_instance ==
    /\ ipc \in {"idle", "returned", "raised"}
    /\ icalls < MaxInstanceCalls
    /\ icalls' = icalls + 1
    /\ ipc' = "telegram"
    /\ at_entry' = [telegram |-> is_current(tele_file), fyers |-> is_current(fyers_file)]
    /\ auth_runs' = 0
    /\ itoken' = None
    /\ iresult' = NoInstance
    /\ ierror' = NoError
    /\ UNCHANGED <<today, tele_file, fyers_file>>
    /\ UNCHANGED <<retry_vars, login_vars, part_vars, hist_vars, daily_vars, conc_vars>>

\* Lines 30-38. TelegramBot.__init__ (telegram.py 45-49) reads self.log_path,
\* which neither it nor ExceptionLogger.__init__ sets: AttributeError, before
\* the file is opened. A current file is loaded.
get_instance_telegram ==
    /\ ipc = "telegram"
    /\ IF ~is_current(tele_file)
       THEN /\ ipc' = "raised"
            /\ ierror' = Error("AttributeError: log_path", 0, 0)
       ELSE /\ ipc' = "fyers"
            /\ UNCHANGED ierror
    /\ UNCHANGED <<today, tele_file, fyers_file, icalls, at_entry, auth_runs, itoken,
                   iresult>>
    /\ UNCHANGED <<retry_vars, login_vars, part_vars, hist_vars, daily_vars, conc_vars>>

\* Lines 40 and 45-48: the session file is loaded when it is current.
get_instance_fyers ==
    /\ ipc = "fyers"
    /\ IF ~is_current(fyers_file)
       THEN /\ ipc' = "login"
            /\ UNCHANGED iresult
       ELSE /\ ipc' = "returned"
            /\ iresult' = Instance(fyers_file.kind, fyers_file.token)
    /\ UNCHANGED <<today, tele_file, fyers_file, icalls, at_entry, auth_runs, itoken,
                   ierror>>
    /\ UNCHANGED <<retry_vars, login_vars, part_vars, hist_vars, daily_vars, conc_vars>>

\* Line 42: FyersLogin(log_path=logdir, teleBot=telegramBot). The constructor
\* runs login and returns whether or not login obtained a token.
FyersLogin_init ==
    /\ ipc = "login"
    /\ auth_runs' = auth_runs + 1
    /\ itoken' \in {NoToken, Token}
    /\ ipc' = "dump"
    /\ UNCHANGED <<today, tele_file, fyers_file, icalls, at_entry, iresult, ierror>>
    /\ UNCHANGED <<retry_vars, login_vars, part_vars, hist_vars, daily_vars, conc_vars>>

\* Lines 43-44 and 50: dill.dump(fyers(), file) writes the FyersModel that
\* __call__ builds from the token; get_instance returns the FyersLogin.
get_instance_dump ==
    /\ ipc = "dump"
    /\ fyers_file' = File(TRUE, today, "FyersModel", itoken)
    /\ iresult' = Instance("FyersLogin", itoken)
    /\ ipc' = "returned"
    /\ UNCHANGED <<today, tele_file, icalls, at_entry, auth_runs, itoken, ierror>>
    /\ UNCHANGED <<retry_vars, login_vars, part_vars, hist_vars, daily_vars, conc_vars>>

\* The date changes between two calls.
midnight ==
    /\ ipc \in {"idle", "returned", "raised"}
    /\ today < MaxToday
    /\ today' = today + 1
    /\ UNCHANGED <<tele_file, fyers_file, ipc, icalls, at_entry, auth_runs, itoken,
                   iresult, ierror>>
    /\ UNCHANGED <<retry_vars, login_vars, part_vars, hist_vars, daily_vars, conc_vars>>

----------------------------------------------------------------------------
\* get_history called from several threads on one client. The wrapper of
\* functools.lru_cache (fyersModel.py 463) looks the key up, calls the body on
\* a miss and stores the result when the body has returned; it holds its lock
\* for the lookup and for the store, never while the body runs. The body is
\* kept as the network calls it issues, one per sub-range.
Threads == 1..MaxThreads
Invocation(tpc, form, req, net, value) ==
    [pc |-> tpc, form |-> form, request |-> req, net |-> net, value |-> value]
NoInvocation ==
    Invocation("idle", "none",
               [resolution |-> NoResolution, range_from |-> 0, range_to |-> 0], 0, <<>>)
ThreadRequests ==
    {[resolution |-> "D", range_from |-> 0,
      range_to |-> k * DailyAllowedDayDifference - 1] : k \in 1..MaxThreadWindows}
WindowsOf(req) == data_list_from(req.range_from, req.range_to, DailyAllowedDayDifference)
SeriesOf(req) ==
    [k \in 1..Len(WindowsOf(req)) |-> Frame(WindowsOf(req)[k], Candles(WindowsOf(req)[k]))]

\* A thread calls get_history: the lookup of the wrapper. A miss runs the body
\* whatever the other threads are doing: the wrapper keeps no record of the
\* keys being computed.
cache_lookup ==
    /\ \E t \in Threads, req \in ThreadRequests, form \in {"positional", "keyword"} :
        LET key == CacheKey(form, req)
            k == CacheIndex(cache, key) IN
        /\ threads[t].pc \in {"idle", "returned"}
        /\ IF k # 0
           THEN /\ threads' = [threads EXCEPT ![t] =
                                  Invocation("returned", form, req, 0, cache[k].value)]
                /\ cache' = Touch(cache, k)
           ELSE /\ threads' = [threads EXCEPT ![t] = Invocation("body", form, req, 0, <<>>)]
                /\ cache' = cache
    /\ UNCHANGED <<hform, hpc, fetch, collected, responses, converted, hresult,
                   herror, hcalls, prev, uses, faults, flaky>>
    /\ UNCHANGED <<retry_vars, login_vars, part_vars, daily_vars, inst_vars>>

\* The body of a thread issues the network call of its next sub-range.
body_fetch ==
    /\ \E t \in Threads :
        /\ threads[t].pc = "body"
        /\ threads[t].net < Len(WindowsOf(threads[t].request))
        /\ threads' = [threads EXCEPT ![t].net = @ + 1]
    /\ UNCHANGED <<hist_vars, retry_vars, login_vars, part_vars, daily_vars, inst_vars>>

\* The body returns the series; the wrapper stores it unless the key has been
\* stored in the meantime, and returns it.
cache_store ==
    /\ \E t \in Threads :
        LET th == threads[t]
            key == CacheKey(th.form, th.request) IN
        /\ th.pc = "body"
        /\ th.net = Len(WindowsOf(th.request))
        /\ threads' = [threads EXCEPT ![t] =
                          Invocation("returned", th.form, th.request, th.net,
                                     SeriesOf(th.request))]
        /\ cache' = IF CacheIndex(cache, key) # 0
                    THEN cache
                    ELSE Store(cache, key, SeriesOf(th.request))
    /\ UNCHANGED <<hform, hpc, fetch, collected, responses, converted, hresult,
                   herror, hcalls, prev, uses, faults, flaky>>
    /\ UNCHANGED <<retry_vars, login_vars, part_vars, daily_vars, inst_vars>>

----------------------------------------------------------------------------
\* Specification of the retry decorator around an arbitrary operation.
RetryInit ==
    /\ func = "op"
    /\ max_attempts \in -1..MaxAttemptsArg
    /\ initial_delay \in -1..MaxDelayArg
    /\ backoff_factor \in 0..MaxBackoffArg
    /\ pc = "decorating"
    /\ remaining_attempts = 0
    /\ current_delay = 0
    /\ calls = 0
    /\ wcalls = 0
    /\ sleeps = <<>>
    /\ prints = 0
    /\ last_error = NoError
    /\ raised = NoError
    /\ result = None

LoginIdle ==
    /\ idx = 0
    /\ data = EmptyDict
    /\ access_token = None
    /\ log = <<>>
    /\ notifications = <<>>
    /\ external_calls = [k \in 1..5 |-> 0]
    /\ logged = 0
    /\ constructed = "no"
    /\ deliveries = <<>>

PartIdle ==
    /\ request = [resolution |-> NoResolution, range_from |-> 0, range_to |-> 0]
    /\ windows = <<>>
    /\ vpc = "idle"

HistIdle ==
    /\ hform = "positional"
    /\ hpc = "idle"
    /\ fetch = <<>>
    /\ collected = <<>>
    /\ responses = <<>>
    /\ converted = <<>>
    /\ hresult = <<>>
    /\ herror = NoError
    /\ cache = <<>>
    /\ hcalls = 0
    /\ prev = NoCall
    /\ uses = <<>>
    /\ faults = 0
    /\ flaky = {}

DailyIdle ==
    /\ fetched = <<>>
    /\ daily = <<>>
    /\ again = <<>>
    /\ dpc = "idle"

InstIdle ==
    /\ today = 1
    /\ tele_file = NoFile
    /\ fyers_file = NoFile
    /\ ipc = "idle"
    /\ icalls = 0
    /\ at_entry = [telegram |-> FALSE, fyers |-> FALSE]
    /\ auth_runs = 0
    /\ itoken = None
    /\ iresult = NoInstance
    /\ ierror = NoError

ConcIdle == threads = [t \in Threads |-> NoInvocation]

ExtIdle == DailyIdle /\ InstIdle /\ ConcIdle

\* FyersModel.history at the time the class body is executed:
\* @utils.retry(max_attempts=5, initial_delay=2, backoff_factor=2, do_print=False).
HistoryInitialDelay == 2
HistoryBackoffFactor == 2
HistoryDecorated ==
    /\ func = "history"
    /\ max_attempts = HistoryMaxAttempts
    /\ initial_delay = HistoryInitialDelay
    /\ backoff_factor = HistoryBackoffFactor
    /\ pc = "decorating"
    /\ remaining_attempts = 0
    /\ current_delay = 0
    /\ calls = 0
    /\ wcalls = 0
    /\ sleeps = <<>>
    /\ prints = 0
    /\ last_error = NoError
    /\ raised = NoError
    /\ result = None

Init ==
    /\ RetryInit \/ HistoryDecorated
    /\ LoginIdle /\ teleBot = "None" /\ PartIdle /\ HistIdle /\ ExtIdle

RetryNext ==
    \/ retry
    \/ wrapped_function_enter
    \/ invoke_func
    \/ raise_failed_to_execute
    \/ op_returns
    \/ op_raises

Next == RetryNext

Spec == Init /\ [][Next]_vars

----------------------------------------------------------------------------
\* Specification of the construction of a FyersLogin: login is decorated with
\* @utils.retry(max_attempts=3, initial_delay=3, backoff_factor=2) and called
\* once by __init__ through log_exception.
LoginMaxAttempts == 3
LoginInitialDelay == 3
LoginBackoffFactor == 2

LoginInit ==
    /\ func = "login"
    /\ max_attempts = LoginMaxAttempts
    /\ initial_delay = LoginInitialDelay
    /\ backoff_factor = LoginBackoffFactor
    /\ pc = "decorating"
    /\ remaining_attempts = 0
    /\ current_delay = 0
    /\ calls = 0
    /\ wcalls = 0
    /\ sleeps = <<>>
    /\ prints = 0
    /\ last_error = NoError
    /\ raised = NoError
    /\ result = None
    /\ LoginIdle
    /\ teleBot \in TeleBots
    /\ ExtIdle
    /\ PartIdle
    /\ HistIdle

LoginNext ==
    \/ retry
    \/ wrapped_function_enter
    \/ invoke_func
    \/ _send_loginOTP
    \/ _verifyTOTP
    \/ _verifyPIN
    \/ _generateAuthCode
    \/ _generate_access_token
    \/ log_exception

SpecLogin == LoginInit /\ [][LoginNext]_vars

----------------------------------------------------------------------------
\* Specification of validate_date_range on a request.
Requests ==
    {[resolution |-> r, range_from |-> f, range_to |-> f + d] :
        r \in Resolutions, f \in 0..MaxFrom, d \in -1..MaxRangeDays}

PartitionInit ==
    /\ func = "op"
    /\ max_attempts = 0
    /\ initial_delay = 0
    /\ backoff_factor = 0
    /\ pc = "unused"
    /\ remaining_attempts = 0
    /\ current_delay = 0
    /\ calls = 0
    /\ wcalls = 0
    /\ sleeps = <<>>
    /\ prints = 0
    /\ last_error = NoError
    /\ raised = NoError
    /\ result = None
    /\ LoginIdle
    /\ teleBot = "None"
    /\ ExtIdle
    /\ request \in Requests
    /\ windows = <<>>
    /\ vpc = "input"
    /\ HistIdle

PartitionNext ==
    \/ validate_date_range

SpecPartition == PartitionInit /\ [][PartitionNext]_vars

----------------------------------------------------------------------------
\* Specification of successive calls of get_history on one client: the first
\* with any request, a later one with the same request or with a one-year one,
\* the argument passed positionally or by keyword.
Forms == {"positional", "keyword"}
RequestOf(resolution, k) ==
    [resolution |-> resolution, range_from |-> 0,
     range_to |-> k * DailyAllowedDayDifference - 1]
Request800 == [resolution |-> "D", range_from |-> 0, range_to |-> 800]
Request730 == [resolution |-> "D", range_from |-> 0, range_to |-> 730]
HistoryRequests ==
    {RequestOf("D", k) : k \in 0..MaxWindows}
        \cup {RequestOf(r, 1) : r \in Resolutions \ {"D"}}
        \cup {Request800, Request730}

get_history ==
    /\ hcalls < MaxCalls
    /\ \E req \in (IF hcalls = 0 THEN HistoryRequests ELSE {request, RequestOf("D", 1)}),
          form \in Forms :
            call_get_history(req, form)

HistoryInit ==
    /\ func = "op"
    /\ max_attempts = 0
    /\ initial_delay = 0
    /\ backoff_factor = 0
    /\ pc = "unused"
    /\ remaining_attempts = 0
    /\ current_delay = 0
    /\ calls = 0
    /\ wcalls = 0
    /\ sleeps = <<>>
    /\ prints = 0
    /\ last_error = NoError
    /\ raised = NoError
    /\ result = None
    /\ LoginIdle
    /\ teleBot = "None"
    /\ ExtIdle
    /\ PartIdle
    /\ hform = "positional"
    /\ hpc = "idle"
    /\ fetch = <<>>
    /\ collected = <<>>
    /\ responses = <<>>
    /\ converted = <<>>
    /\ hresult = <<>>
    /\ herror = NoError
    /\ cache = <<>>
    /\ hcalls = 0
    /\ prev = NoCall
    /\ uses = <<>>
    /\ faults = MaxFaults
    /\ flaky \in {{i} : i \in 1..MaxWindows}

HistoryNext ==
    \/ get_history
    \/ validate_date_range
    \/ propagate_TypeError
    \/ executor_map
    \/ fetch_start
    \/ fetch_returns
    \/ fetch_raises
    \/ collect_result
    \/ executor_exit
    \/ convert_to_OHLCV
    \/ concat

SpecHistory == HistoryInit /\ [][HistoryNext]_vars

----------------------------------------------------------------------------
\* Specification of get_history called for a list of requests, as the loops of
\* momentum_swing do through history_daily: one-day daily requests for the days
\* 1, 2, ... in turn; once the cache is nearly full the caller may also repeat
\* one of the first requests, and pass the request either way.
KeyRequest(k) == [resolution |-> "D", range_from |-> k, range_to |-> k]
LastKey(c) ==
    LET days == {c[k].key[2].range_from : k \in DOMAIN c} IN
    IF days = {} THEN 0 ELSE CHOOSE d \in days : \A e \in days : e <= d
CallerChoices ==
    IF Len(cache) < maxsize - 1
    THEN {<<KeyRequest(LastKey(cache) + 1), "keyword">>}
    ELSE {<<KeyRequest(k), f>> : k \in 1..MaxOld \cup {LastKey(cache) + 1}, f \in Forms}

get_history_series ==
    /\ hcalls < MaxSeriesCalls
    /\ \E c \in CallerChoices : call_get_history(c[1], c[2])

CacheInit ==
    /\ func = "op"
    /\ max_attempts = 0
    /\ initial_delay = 0
    /\ backoff_factor = 0
    /\ pc = "unused"
    /\ remaining_attempts = 0
    /\ current_delay = 0
    /\ calls = 0
    /\ wcalls = 0
    /\ sleeps = <<>>
    /\ prints = 0
    /\ last_error = NoError
    /\ raised = NoError
    /\ result = None
    /\ LoginIdle
    /\ teleBot = "None"
    /\ ExtIdle
    /\ PartIdle
    /\ HistIdle

CacheNext ==
    \/ get_history_series
    \/ validate_date_range
    \/ executor_map
    \/ fetch_start
    \/ fetch_returns
    \/ collect_result
    \/ executor_exit
    \/ convert_to_OHLCV
    \/ concat

SpecCache == CacheInit /\ [][CacheNext]_vars

----------------------------------------------------------------------------
\* Specification of history_daily on a daily request and on the series
\* get_history returned for it: up to MaxRows rows, in any order, of dates
\* inside and around the range; the values of a row are named by its position.
DailyRequests ==
    {[resolution |-> "D", range_from |-> f, range_to |-> t] :
        f \in 0..MaxDay, t \in 0..MaxDay}
FetchedSeries ==
    UNION {{[i \in 1..n |-> Row(dates[i], i)] : dates \in [1..n -> 0..MaxDay]} :
            n \in 0..MaxRows}

DailyInit ==
    /\ func = "op"
    /\ max_attempts = 0
    /\ initial_delay = 0
    /\ backoff_factor = 0
    /\ pc = "unused"
    /\ remaining_attempts = 0
    /\ current_delay = 0
    /\ calls = 0
    /\ wcalls = 0
    /\ sleeps = <<>>
    /\ prints = 0
    /\ last_error = NoError
    /\ raised = NoError
    /\ result = None
    /\ LoginIdle
    /\ teleBot = "None"
    /\ request \in {r \in DailyRequests : r.range_from <= r.range_to}
    /\ windows = <<>>
    /\ vpc = "idle"
    /\ HistIdle
    /\ fetched \in FetchedSeries
    /\ daily = <<>>
    /\ again = <<>>
    /\ dpc = "called"
    /\ InstIdle
    /\ ConcIdle

DailyNext ==
    \/ history_daily
    \/ rollup_again

SpecDaily == DailyInit /\ [][DailyNext]_vars

----------------------------------------------------------------------------
\* Specification of successive calls of get_instance on a log directory. The
\* directory starts with each file absent, left by an earlier day, or written
\* today; the session file holds a FyersModel with or without a token.
TelegramFiles ==
    {NoFile, File(TRUE, 0, "TelegramBot", None), File(TRUE, 1, "TelegramBot", None)}
SessionFiles ==
    {NoFile} \cup {File(TRUE, d, "FyersModel", t) : d \in 0..1, t \in {NoToken, Token}}

InstanceInit ==
    /\ func = "op"
    /\ max_attempts = 0
    /\ initial_delay = 0
    /\ backoff_factor = 0
    /\ pc = "unused"
    /\ remaining_attempts = 0
    /\ current_delay = 0
    /\ calls = 0
    /\ wcalls = 0
    /\ sleeps = <<>>
    /\ prints = 0
    /\ last_error = NoError
    /\ raised = NoError
    /\ result = None
    /\ LoginIdle
    /\ teleBot = "None"
    /\ PartIdle
    /\ HistIdle
    /\ DailyIdle
    /\ ConcIdle
    /\ today = 1
    /\ tele_file \in TelegramFiles
    /\ fyers_file \in SessionFiles
    /\ ipc = "idle"
    /\ icalls = 0
    /\ at_entry = [telegram |-> FALSE, fyers |-> FALSE]
    /\ auth_runs = 0
    /\ itoken = None
    /\ iresult = NoInstance
    /\ ierror = NoError

InstanceNext ==
    \/ call_get_instance
    \/ get_instance_telegram
    \/ get_instance_fyers
    \/ FyersLogin_init
    \/ get_instance_dump
    \/ midnight

SpecInstance == InstanceInit /\ [][InstanceNext]_vars

----------------------------------------------------------------------------
\* Specification of threads that call get_history on one client, each with a
\* daily request of one or more sub-ranges, at any time relative to each other.
ThreadsInit ==
    /\ func = "op"
    /\ max_attempts = 0
    /\ initial_delay = 0
    /\ backoff_factor = 0
    /\ pc = "unused"
    /\ remaining_attempts = 0
    /\ current_delay = 0
    /\ calls = 0
    /\ wcalls = 0
    /\ sleeps = <<>>
    /\ prints = 0
    /\ last_error = NoError
    /\ raised = NoError
    /\ result = None
    /\ LoginIdle
    /\ teleBot = "None"
    /\ PartIdle
    /\ HistIdle
    /\ ExtIdle

ThreadsNext ==
    \/ cache_lookup
    \/ body_fetch
    \/ cache_store

SpecThreads == ThreadsInit /\ [][ThreadsNext]_vars

----------------------------------------------------------------------------
\* The claims.

\* C1: for every max_attempts >= 0, one call of the wrapped function invokes the
\* wrapped operation at most max_attempts + 1 times.
C1_AtMostMaxAttemptsPlusOneCalls ==
    pc \in {"ready", "loop", "in_func", "returned", "raised"}
        => calls <= max_attempts + 1
\* The operation failed at every invocation of a call and the budget is spent.
C1_Witness ==
    /\ pc = "raised"
    /\ max_attempts >= 2
    /\ calls = max_attempts
    /\ last_error.attempt = calls

\* C2: when the operation raises at every invocation, the error wrapped_function
\* raises is the error of the operation's last invocation, itself.
C2_RaisedIsLastError ==
    (func = "op" /\ pc = "raised") => raised = last_error

\* C3: retry with backoff_factor <= 1, initial_delay <= 0 or max_attempts < 0
\* raises ValueError at once, and the wrapped operation is never invoked.
ConfigurationErrors ==
    {ValueErrorOf("backoff_factor must be greater than 1"),
     ValueErrorOf("max_attempts must be 0 or greater"),
     ValueErrorOf("initial_delay must be greater than 0")}
C3_InvalidArgumentsRaiseValueError ==
    (pc # "decorating"
        /\ (backoff_factor <= 1 \/ initial_delay <= 0 \/ max_attempts < 0))
    => /\ pc = "config_error"
       /\ raised \in ConfigurationErrors
       /\ calls = 0
       /\ wcalls = 0
C3_Witness ==
    /\ pc = "config_error"
    /\ max_attempts < 0
    /\ backoff_factor > 1
    /\ initial_delay > 0
    /\ raised = ValueErrorOf("max_attempts must be 0 or greater")

\* C4: within one attempt of login the steps are invoked in the order Send OTP,
\* Verify TOTP, Verify PIN, Generate Auth Code, Generate Access Token: the i-th
\* invocation of the attempt is step i, no step is invoked twice, and a step is
\* invoked only after the one before it returned.
C4_StepsInProtocolOrder ==
    \A i \in 1..Len(log) :
        /\ log[i].step = i
        /\ log[i].attempt = calls
        /\ i < Len(log) => log[i].outcome = "returned"
C4_Witness ==
    /\ pc = "returned"
    /\ Len(log) = 5
    /\ \A i \in 1..5 : log[i].external

\* C5: when a step raises, no later step is invoked in that attempt, and the
\* attempt that follows starts at step 1 (Send OTP), not at the step that failed.
C5_AbortAndRestartFromStepOne ==
    /\ \A i \in 1..Len(log) : log[i].outcome = "raised" =>
            /\ i = Len(log)
            /\ pc # "in_func"
    /\ (calls >= 2 /\ Len(log) >= 1) => log[1].step = 1
    /\ (calls >= 2 /\ pc = "in_func" /\ log = <<>>) => steps[idx] = "_send_loginOTP"
\* Verify TOTP raised in the first attempt and the second has sent its OTP.
C5_Witness ==
    /\ calls = 2
    /\ last_error = Error("RequestException", 1, 2)
    /\ Len(log) = 1
    /\ log[1].step = 1
    /\ external_calls[1] = 2
    /\ external_calls[3] = 0

\* C6: when the five steps succeed at the first attempt, login has made exactly
\* five external calls, one per step and in order, and self.access_token is the
\* access_token of the token-exchange response of step 5.
C6_HappyPath ==
    (func = "login" /\ pc = "returned" /\ calls = 1) =>
        /\ Len(log) = 5
        /\ \A i \in 1..5 : log[i].step = i /\ log[i].external
        /\ external_calls = [k \in 1..5 |-> 1]
        /\ access_token = Get(data, "access_token")
        /\ log[5].sent = <<"auth_code", 1>>
C6_Witness ==
    /\ func = "login"
    /\ pc = "returned"
    /\ calls = 1
    /\ access_token = <<"token", 1>>

\* C7: one call of login runs the sequence at most 3 times: Send OTP is invoked
\* at most 3 times, no step more often than that, and once the third attempt has
\* failed wrapped_function has raised, so that no step follows.
C7_AtMostThreeAttempts ==
    func = "login" =>
        /\ calls <= 3
        /\ \A k \in 1..5 : external_calls[k] <= 3
        /\ last_error.attempt = 3 => pc = "raised"
C7_Witness ==
    /\ func = "login"
    /\ pc = "raised"
    /\ external_calls[1] = 3
    /\ calls = 3

\* C8: when every login attempt fails, __init__ raises the last error or a
\* notification naming the failed step and its cause is sent: the authenticator
\* is never left constructed normally, without a token and without a report.
SuccessNotices == {StepMessage(steps[i]) : i \in 1..Len(steps)} \cup {LoginSuccessful}
C8_FailureReachesCallerOrOperator ==
    (func = "login" /\ pc = "raised" /\ constructed # "no") =>
        \/ constructed = "raised"
        \/ \E i \in 1..Len(notifications) : notifications[i] \notin SuccessNotices

\* C9: a step that finds its prerequisite field missing ends the login: the
\* retry wrapper does not invoke login again after it.
ProtocolOrderErrors == {"KeyError", "AttributeError: None"}
C9_MissingPrerequisiteIsFatal ==
    (func = "login" /\ last_error.type \in ProtocolOrderErrors)
        => calls = last_error.attempt

\* C10: the windows validate_date_range returns are in ascending order,
\* contiguous, non-overlapping, start at range_from, end at range_to, and cover
\* exactly the days range_from..range_to.
Days(w) == w.range_from .. w.range_to
C10_WindowsPartitionTheRange ==
    vpc = "returned" =>
        LET n == Len(windows) IN
        /\ \A i \in 1..(n - 1) :
              /\ windows[i].range_from < windows[i + 1].range_from
              /\ windows[i + 1].range_from = windows[i].range_to + 1
        /\ \A i, j \in 1..n : i # j => Days(windows[i]) \cap Days(windows[j]) = {}
        /\ n > 0 => /\ windows[1].range_from = request.range_from
                    /\ windows[n].range_to = request.range_to
        /\ UNION {Days(windows[i]) : i \in 1..n} = request.range_from .. request.range_to
        /\ request.range_from <= request.range_to => n > 0
C10_Witness ==
    /\ vpc = "returned"
    /\ Len(windows) = 4
    /\ windows[4].range_to = request.range_to
    /\ windows[4].range_to < windows[4].range_from + DailyAllowedDayDifference - 1

\* C11: every window validate_date_range emits has range_from <= range_to and
\* spans at most 365 calendar days, both end days counted.
WindowDays(w) == w.range_to - w.range_from + 1
C11_WindowsNonEmptyAndWithinSpan ==
    vpc = "returned" =>
        \A i \in 1..Len(windows) :
            /\ windows[i].range_from <= windows[i].range_to
            /\ WindowDays(windows[i]) <= 365
\* A full window of 365 days followed by a last window of a single day.
C11_Witness ==
    /\ vpc = "returned"
    /\ Len(windows) = 2
    /\ WindowDays(windows[1]) = 365
    /\ WindowDays(windows[2]) = 1

\* C12: for range_from <= range_to validate_date_range emits at least one
\* window, exactly the window [range_from, range_to] when range_to - range_from
\* < 365, and ceil((range_to - range_from + 1) / 365) windows in general: 5
\* windows for 1461 days, the last ending at range_to.
CeilDiv(a, b) == (a + b - 1) \div b
C12_NumberOfWindows ==
    (vpc = "returned" /\ request.range_from <= request.range_to) =>
        LET n == Len(windows)
            days == request.range_to - request.range_from + 1
        IN  /\ n >= 1
            /\ n = CeilDiv(days, 365)
            /\ request.range_to - request.range_from < 365 =>
                   windows = <<[range_from |-> request.range_from,
                                range_to |-> request.range_to]>>
            /\ days = 1461 => (n = 5 /\ windows[5].range_to = request.range_to)
C12_Witness ==
    /\ vpc = "returned"
    /\ request.range_to - request.range_from + 1 = 1461
    /\ Len(windows) = 5
    /\ windows[5].range_to = request.range_to

\* C13: validate_date_range partitions with windows of at most 365 days for the
\* daily resolutions D and 1D and of at most 100 days for the intraday
\* resolutions, and returns a partition for each of them.
C13_KnownResolutionsArePartitioned ==
    (vpc \in {"returned", "TypeError"} /\ request.resolution \in KnownResolutions) =>
        /\ vpc = "returned"
        /\ \A i \in 1..Len(windows) :
              WindowDays(windows[i]) <=
                  (IF request.resolution \in {"D", "1D"} THEN 365 ELSE 100)

C15_AtMostFiveFetchesInFlight ==
    Cardinality(Running(fetch)) <= 5
\* Five fetches run while a sixth sub-range waits in the queue.
C15_Witness ==
    /\ Len(windows) > 5
    /\ Cardinality(Running(fetch)) = 5
    /\ fetch[6].status = "queued"

\* C16: in get_history no response is converted or concatenated before every
\* submitted sub-range fetch has finished (returned, raised or been cancelled),
\* and a step of a worker changes the future of its own sub-range only: not
\* another future, nor responses, the frames, the result or the cache.
C16_Barrier ==
    (hpc = "converting" \/ Len(converted) > 0 \/ (hpc = "returned" /\ fetch # <<>>)) =>
        \A i \in DOMAIN fetch : fetch[i].status \in {"returned", "raised", "cancelled"}
C16_WorkerStep ==
    /\ hcalls' = hcalls
    /\ hpc' = hpc
    /\ DOMAIN fetch' = DOMAIN fetch
    /\ fetch' # fetch
C16_JoinAfterAllWorkers ==
    /\ []C16_Barrier
    /\ [][C16_WorkerStep =>
            /\ \E i \in DOMAIN fetch : \A j \in DOMAIN fetch \ {i} : fetch'[j] = fetch[j]
            /\ UNCHANGED <<request, windows, collected, responses, converted, hresult,
                           herror, cache>>]_vars
\* The second of three frames is being built: all three fetches have finished.
C16_Witness ==
    /\ hpc = "converting"
    /\ Len(fetch) = 3
    /\ Len(converted) = 1
    /\ fetch[3].net > 1

\* C17: the series get_history returns holds, for each sub-range in the order
\* validate_date_range emitted them, the frame of that sub-range's own response:
\* it is determined by the request, whatever the order the fetches finished in.
ExpectedSeries(req) ==
    LET ws == data_list_from(req.range_from, req.range_to, 365) IN
    [k \in 1..Len(ws) |-> [window |-> ws[k],
                           candles |-> <<ws[k].range_from, ws[k].range_to>>]]
C17_JoinedInPartitionOrder ==
    hpc = "returned" => hresult = ExpectedSeries(request)
\* The first sub-range needed three network calls, the third and last one.
C17_Witness ==
    /\ hpc = "returned"
    /\ Len(hresult) = 3
    /\ Len(fetch) = 3
    /\ fetch[1].net = 3
    /\ fetch[3].net = 1

\* C18: when a sub-range fetch of a call of get_history has raised after its
\* five attempts, the call returns no series and stores none: it raises, and the
\* error it raises is the error of that fetch.
C18_FailedFetchFailsTheCall ==
    \A i \in DOMAIN fetch :
        fetch[i].status = "raised" =>
            /\ fetch[i].net = 5
            /\ hpc \in {"collecting", "exiting", "raised"}
            /\ hresult = <<>>
            /\ CacheIndex(cache, CacheKey(hform, request)) = 0
            /\ hpc = "raised" => herror = fetch[i].error
\* The second of three fetches failed; the first and the third returned candles.
C18_Witness ==
    /\ hpc = "raised"
    /\ Len(fetch) = 3
    /\ fetch[1].status = "returned"
    /\ fetch[2].status = "raised"
    /\ fetch[3].status = "returned"

\* C19: when a call of get_history has returned a series and the next call on
\* the client has an equal request, the second call issues no network call and
\* returns the series of the first.
C19_EqualRequestServedFromCache ==
    (hcalls >= 2 /\ prev.outcome = "returned" /\ prev.request = request) =>
        /\ hpc = "returned"
        /\ fetch = <<>>
        /\ NetCalls(fetch) = 0
        /\ hresult = prev.series
\* The same, for two calls that pass the request the same way.
C19_SameFormServedFromCache ==
    (hcalls >= 2 /\ prev.outcome = "returned" /\ prev.request = request
        /\ prev.form = hform) =>
        /\ hpc = "returned"
        /\ fetch = <<>>
        /\ NetCalls(fetch) = 0
        /\ hresult = prev.series

\* C20: the cache of get_history never holds more than 100 entries, and it
\* holds exactly the keys used most recently: a key that was used and is no
\* longer held has had at least 100 other distinct keys used since its last
\* use, and a key with fewer than 100 is still held.
KeysOf(c) == {c[k].key : k \in DOMAIN c}
LastUse(key) == CHOOSE i \in DOMAIN uses :
                    uses[i] = key /\ \A j \in DOMAIN uses : uses[j] = key => j <= i
OthersSince(key) == {uses[j] : j \in (LastUse(key) + 1)..Len(uses)}
C20_CacheBoundedAndLeastRecentlyUsedEvicted ==
    /\ Len(cache) <= 100
    /\ Cardinality(KeysOf(cache)) = Len(cache)
    /\ \A i \in DOMAIN uses :
          uses[i] \in KeysOf(cache) <=> Cardinality(OthersSince(uses[i])) < 100
\* The first key was used again when the cache was full, and the second key,
\* by then the least recently used, was evicted in its place.
C20_Witness ==
    /\ Len(cache) = 100
    /\ CacheKey("keyword", KeyRequest(1)) \in KeysOf(cache)
    /\ CacheKey("keyword", KeyRequest(2)) \notin KeysOf(cache)
    /\ CacheKey("keyword", KeyRequest(101)) \in KeysOf(cache)

\* C21: the series history_daily returns has exactly one row for every day
\* from the first day of [range_from, range_to] that has a fetched row through
\* range_to, no row of a day outside the range, and strictly increasing dates;
\* it is empty when no fetched row lies in the range.
FetchedDays == {fetched[i].date : i \in DOMAIN fetched}
FetchedInRange == FetchedDays \cap (request.range_from..request.range_to)
FirstFetchedInRange == CHOOSE d \in FetchedInRange : \A e \in FetchedInRange : d <= e
C21_OneRowPerCalendarDay ==
    dpc \in {"returned", "rolled"} =>
        /\ \A k \in DOMAIN daily :
              /\ daily[k].date \in request.range_from..request.range_to
              /\ k < Len(daily) => daily[k + 1].date = daily[k].date + 1
        /\ IF FetchedInRange = {}
           THEN daily = <<>>
           ELSE /\ Len(daily) = request.range_to - FirstFetchedInRange + 1
                /\ daily[1].date = FirstFetchedInRange
\* A series with a repeated date, a day without data before the first fetched
\* day and one after it, and a row outside the range.
C21_Witness ==
    /\ dpc = "returned"
    /\ request.range_from = 1
    /\ request.range_to = 4
    /\ fetched = <<Row(2, 1), Row(0, 2), Row(2, 3), Row(4, 4)>>
    /\ Len(daily) = 3

\* C22: every row of the result for a day d carries the values of the first
\* fetched row of the latest day <= d that has a fetched row; a day with no
\* fetched row on or before it has no row.
LatestFetchedDay(d) ==
    CHOOSE e \in FetchedDays : e <= d /\ \A x \in FetchedDays : x <= d => x <= e
FirstRowOf(e) ==
    CHOOSE i \in DOMAIN fetched :
        fetched[i].date = e /\ \A j \in DOMAIN fetched : fetched[j].date = e => i <= j
C22_ForwardFilledFromFirstRow ==
    dpc \in {"returned", "rolled"} =>
        \A k \in DOMAIN daily :
            /\ \E e \in FetchedDays : e <= daily[k].date
            /\ daily[k].val = fetched[FirstRowOf(LatestFetchedDay(daily[k].date))].val
\* Day 3 has no fetched row and takes the values of the first of the two rows
\* of day 2.
C22_Witness ==
    /\ dpc = "returned"
    /\ request.range_from = 1
    /\ request.range_to = 3
    /\ fetched = <<Row(2, 1), Row(2, 2), Row(1, 3)>>
    /\ daily = <<Row(1, 3), Row(2, 1), Row(3, 1)>>

C24_OneNetworkCallPerWindow ==
    faults = MaxFaults =>
        /\ \A i \in DOMAIN fetch : fetch[i].net <= 1
        /\ (hpc = "returned" /\ fetch # <<>>) =>
              /\ NetCalls(fetch) = Len(windows)
              /\ NetCalls(fetch) = (request.range_to - request.range_from) \div 365 + 1
              /\ request = Request800 => NetCalls(fetch) = 3
C24_Witness ==
    /\ faults = MaxFaults
    /\ hpc = "returned"
    /\ request = Request800
    /\ Len(hresult) = 3
    /\ NetCalls(fetch) = 3

\* C25: a call of get_instance constructs a FyersLogin (runs the login) if and
\* only if the session file was absent or not of today when the call began; when
\* it was current, the call returns the client loaded from it and runs no login.
C25_AuthenticatorRunsIffSessionFileNotCurrent ==
    (icalls > 0 /\ ipc \in {"returned", "raised"}) =>
        /\ auth_runs = (IF at_entry.fyers THEN 0 ELSE 1)
        /\ at_entry.fyers =>
              /\ ipc = "returned"
              /\ iresult = Instance(fyers_file.kind, fyers_file.token)
\* The same, for the calls that find a telegramBot.pickle of today.
C25_WithCurrentTelegramFile ==
    (icalls > 0 /\ ipc \in {"returned", "raised"} /\ at_entry.telegram) =>
        /\ auth_runs = (IF at_entry.fyers THEN 0 ELSE 1)
        /\ at_entry.fyers =>
              /\ ipc = "returned"
              /\ iresult = Instance(fyers_file.kind, fyers_file.token)

\* C26: sendMessage never raises to login: when the credentials are missing,
\* the bot is unusable or the HTTP request fails, it logs and returns. No error
\* the retry wrapper of login handles is the error of a notification, and a
\* login whose five steps return ends in success whatever became of its
\* notifications.
C26_NotificationFailureNeverPropagates ==
    /\ Len(deliveries) = Len(notifications)
    /\ \A i \in DOMAIN deliveries :
          /\ ~deliveries[i].raises
          /\ deliveries[i].outcome \in DeliveryErrors => deliveries[i].logs
    /\ last_error.type \notin DeliveryErrors
    /\ raised.type \notin DeliveryErrors
    /\ (\E i \in DOMAIN log : log[i].step = 5 /\ log[i].outcome = "returned"
                                /\ data.kind = "dict") =>
            pc = "returned"
\* The first attempt succeeded although each of its notifications failed.
C26_Witness ==
    /\ pc = "returned"
    /\ calls = 1
    /\ teleBot = "no credentials"
    /\ Len(notifications) = 6
    /\ \A i \in DOMAIN deliveries : deliveries[i].outcome \in DeliveryErrors

\* C27: "Login successful!" is sent at most once in an invocation of login,
\* only by an invocation all of whose five steps returned, as its last
\* notification, and that invocation is the one that ends the call in success:
\* an invocation that fails sends none, and a successful call sends exactly one.
SuccessNoticesSent ==
    Cardinality({i \in DOMAIN notifications : notifications[i] = LoginSuccessful})
C27_LoginSuccessfulExactlyOnce ==
    /\ SuccessNoticesSent <= 1
    /\ SuccessNoticesSent = 1 =>
          /\ pc = "returned"
          /\ notifications[Len(notifications)] = LoginSuccessful
    /\ (func = "login" /\ pc = "returned") =>
          /\ SuccessNoticesSent = 1
          /\ Len(log) = 5
          /\ \A k \in 1..5 : /\ log[k].step = k
                             /\ log[k].attempt = calls
                             /\ log[k].outcome = "returned"
    /\ pc = "raised" => SuccessNoticesSent = 0
\* The third invocation succeeded after two failed ones.
C27_Witness ==
    /\ func = "login"
    /\ pc = "returned"
    /\ calls = 3
    /\ SuccessNoticesSent = 1

\* C28: self.access_token is None in every state in which step 5 (Generate
\* Access Token) has not returned from its token exchange in the current
\* invocation: steps 1 to 4 and failed invocations leave it None.
Step5Returned ==
    \E i \in DOMAIN log :
        log[i].step = 5 /\ log[i].outcome = "returned" /\ log[i].external
C28_TokenAbsentBeforeStep5 ==
    ~Step5Returned => access_token = None
\* The third invocation has reached step 5 after two failed invocations.
C28_Witness ==
    /\ func = "login"
    /\ calls = 3
    /\ pc = "in_func"
    /\ idx = 5
    /\ Len(log) = 4
    /\ access_token = None

\* C29: within one call of the wrapped function the sleep after the k-th
\* failed invocation lasts initial_delay * backoff_factor^(k-1), and the delay
\* in force is again initial_delay when a new call starts: nothing is carried
\* over from the previous call.
RECURSIVE Power(_, _)
Power(base, exponent) ==
    IF exponent = 0 THEN 1 ELSE base * Power(base, exponent - 1)
C29_GeometricDelayPerCall ==
    /\ \A k \in DOMAIN sleeps :
          sleeps[k] = initial_delay * Power(backoff_factor, k - 1)
    /\ wcalls > 0 =>
          current_delay = initial_delay * Power(backoff_factor, Len(sleeps))
    /\ (wcalls > 0 /\ calls = 0) => current_delay = initial_delay
\* The second call of the wrapped function has failed three times, with a
\* delay that grows.
C29_Witness ==
    /\ func = "op"
    /\ wcalls = 2
    /\ backoff_factor > 1
    /\ initial_delay > 1
    /\ Len(sleeps) = 3

C30_OneSleepPerFailedInvocation ==
    (func = "op" /\ calls > 0) =>
        /\ pc = "raised" => Len(sleeps) = calls
        /\ pc = "returned" => Len(sleeps) = calls - 1
        /\ pc = "loop" => Len(sleeps) = calls

\* C31: when an invocation of the wrapped operation succeeds, the wrapper
\* returns that invocation's result at once: the call is over, the result is
\* the one of the last invocation made, and the sleeps and diagnostic prints
\* are those of the failed invocations before it, one each.
C31_SuccessReturnsImmediately ==
    result # None =>
        /\ pc = "returned"
        /\ result = <<"result", calls>>
        /\ Len(sleeps) = calls - 1
        /\ prints = calls - 1
        /\ raised = NoError
\* The third invocation succeeded after two failed ones.
C31_Witness ==
    /\ func = "op"
    /\ pc = "returned"
    /\ calls = 3
    /\ result = <<"result", 3>>
    /\ Len(sleeps) = 2

\* C32: history is wrapped by retry with a budget of 5 attempts (2 s initial
\* delay, factor 2): the decoration yields a wrapper, and a call of it invokes
\* the request at most 5 times. (Violated: the decorating call of retry raises
\* TypeError, so no wrapper is made.)
C32_HistoryWrappedWithFiveAttempts ==
    (func = "history" /\ pc # "decorating") =>
        /\ pc # "config_error"
        /\ raised \notin {TypeErrorOf("retry() got an unexpected keyword argument")}
        /\ calls <= HistoryMaxAttempts
\* With a wrapper of 5 attempts in place, as get_history assumes it: a window
\* takes at most 5 network calls, and each window collected contributes the
\* one response of its fetch.
C32_AtMostFiveCallsPerWindow ==
    /\ \A i \in DOMAIN fetch :
          /\ fetch[i].net <= HistoryMaxAttempts
          /\ fetch[i].status = "returned" => fetch[i].response # NoResponse
    /\ Len(responses) = Len(collected)
    /\ \A k \in DOMAIN responses : responses[k] = fetch[collected[k]].response

\* C33: in every login attempt the request_key Verify TOTP sends is the one
\* Send OTP returned in that attempt, and the one Verify PIN sends is the one
\* Verify TOTP returned in that attempt (None when the response held none); a
\* key of an earlier attempt is never sent.
KeySteps == {2, 3}
C33_RequestKeyOfSameAttempt ==
    func = "login" =>
        \A i \in DOMAIN log :
            log[i].step \in KeySteps =>
                /\ log[i].attempt = calls
                /\ i > 1
                /\ log[i - 1].step = log[i].step - 1
                /\ log[i - 1].attempt = log[i].attempt
                /\ log[i - 1].outcome = "returned"
                /\ log[i].sent \in {None, <<"rk", log[i].attempt, log[i].step - 1>>}
                /\ log[i].missing <=> log[i].sent = None
\* The third attempt has sent its own keys in Verify TOTP and Verify PIN.
C33_Witness ==
    /\ func = "login"
    /\ calls = 3
    /\ Len(log) >= 3
    /\ log[2].sent = <<"rk", 3, 1>>
    /\ log[3].sent = <<"rk", 3, 2>>

\* C34: whenever login has returned and "Login successful!" was sent, the
\* authenticator holds an access token. (Violated: a token exchange answered
\* by a dict without access_token is followed by the success notice and
\* return True.)
C34_SuccessImpliesToken ==
    (func = "login" /\ pc = "returned" /\ SuccessNoticesSent = 1) =>
        access_token # None
\* What the code guarantees instead: after a successful login the token is the
\* access_token field of the response of step 5, whatever it is.
C34_TokenIsFieldOfLastResponse ==
    (func = "login" /\ pc = "returned") =>
        /\ data.kind = "dict"
        /\ access_token = Get(data, "access_token")

\* C35: get_instance writes a client to the session file only after a login
\* that produced an access token: a call whose login obtained no token leaves
\* no current session file, and no later call of the day loads a client
\* without a token from a file such a call wrote. (Violated: the client built
\* from the missing token is dumped all the same.)
C35_SessionFileOnlyAfterToken ==
    (ipc = "returned" /\ auth_runs = 1 /\ itoken = NoToken) =>
        ~is_current(fyers_file)
\* What the code does: whenever the authenticator has run, the file written
\* holds a client built from whatever token the login left.
C35_FileHoldsTokenOfLogin ==
    (ipc = "returned" /\ auth_runs = 1) =>
        /\ fyers_file.exists
        /\ fyers_file.kind = "FyersModel"
        /\ fyers_file.token = itoken

\* C36: get_instance returns the same kind of object on the fresh-login path
\* as on the cached path: whenever it returns, its second element is a broker
\* client (FyersModel). (Violated: after a login it returns the FyersLogin
\* object; the FyersModel it built went to the file only.)
C36_ReturnsBrokerClient ==
    ipc = "returned" => iresult.kind = "FyersModel"
\* On the cached path the result is the client of the file, and the next call
\* of the same day returns the client the login call wrote.
C36_CachedPathReturnsClientOfFile ==
    (ipc = "returned" /\ auth_runs = 0) =>
        iresult = Instance(fyers_file.kind, fyers_file.token)

\* C37: a call of get_history that raises stores nothing in the cache: the
\* cache holds complete series only, none under the key of a call that raised,
\* and a later call with an equal request passed the same way runs the fetches
\* again and, when it returns, returns the complete series.
C37_RaisedCallStoresNothing ==
    /\ \A k \in DOMAIN cache : cache[k].value = ExpectedSeries(cache[k].key[2])
    /\ hpc = "raised" => CacheKey(hform, request) \notin KeysOf(cache)
    /\ (prev.outcome = "raised" /\ prev.request = request /\ prev.form = hform
            /\ hpc = "returned") =>
          /\ Len(fetch) = Len(windows)
          /\ Len(fetch) > 0
          /\ \A i \in DOMAIN fetch : fetch[i].net >= 1
          /\ hresult = ExpectedSeries(request)
    /\ (prev.outcome = "raised" /\ prev.request = request /\ prev.form = hform) =>
          hpc # "idle" /\ (hpc = "raised" => herror # NoError)
\* A call of two sub-ranges raised; the same call made again has fetched both
\* sub-ranges and returned.
C37_Witness ==
    /\ hcalls = 2
    /\ prev.outcome = "raised"
    /\ prev.request = request
    /\ prev.form = hform
    /\ hpc = "returned"
    /\ Len(fetch) = 2
    /\ NetCalls(fetch) >= 2

\* C38: when two invocations of get_history with equal requests, passed the
\* same way, overlap on one client, the sub-range network calls are issued
\* once: the second does not start fetches of its own while the first is
\* computing. (Violated: the second invocation misses as well and fetches.)
KeyOf(t) == CacheKey(threads[t].form, threads[t].request)
C38_OverlappingEqualCallsFetchOnce ==
    \A s \in Threads, t \in Threads :
        (s # t /\ threads[s].pc = "body" /\ threads[t].pc # "idle"
            /\ KeyOf(s) = KeyOf(t)) =>
            ~(threads[s].net > 0 /\ threads[t].net > 0)
\* What the wrapper does guarantee under overlap: the cache holds each key
\* once, with the complete series, and every invocation that has returned has
\* returned the complete series of its request.
C38_CacheConsistentUnderOverlap ==
    /\ \A j \in DOMAIN cache, k \in DOMAIN cache : cache[j].key = cache[k].key => j = k
    /\ \A k \in DOMAIN cache : cache[k].value = SeriesOf(cache[k].key[2])
    /\ \A t \in Threads :
          threads[t].pc = "returned" => threads[t].value = SeriesOf(threads[t].request)

\* C39: after history_daily(r) has succeeded, whose body called
\* get_history(data=r), a direct call get_history(r) with an equal request on
\* the same client is served from the cache without a network call.
\* (Violated: the positional call has another key and fetches again.)
C39_DirectCallServedAfterHistoryDaily ==
    (hcalls >= 2 /\ prev.outcome = "returned" /\ prev.form = history_daily_form
        /\ prev.request = request /\ hform = "positional") =>
        /\ hpc = "returned"
        /\ fetch = <<>>
        /\ NetCalls(fetch) = 0
        /\ hresult = prev.series
\* What holds instead: the positional call after the keyword call is a miss
\* that runs the body, and both keys are cached once it has returned.
C39_PositionalCallMisses ==
    (hcalls >= 2 /\ prev.outcome = "returned" /\ prev.form = history_daily_form
        /\ prev.request = request /\ hform = "positional") =>
        /\ hpc # "idle"
        /\ CacheKey(history_daily_form, request) \in KeysOf(cache)
        /\ hpc = "returned" =>
              /\ Len(fetch) > 0
              /\ NetCalls(fetch) >= Len(fetch)
              /\ CacheKey("positional", request) \in KeysOf(cache)
              /\ hresult = prev.series

====
